---- MODULE Spec2Model ----
(***************************************************************************)
(* AssetBot (src/assetbot.py): a Telegram bot that watches group messages  *)
(* for Envato links, resolves the item, probes the download endpoint for a *)
(* signed URL, streams the file to /tmp under a size ceiling and relays it *)
(* back, behind a per-(chat, user) sliding-window rate limiter.            *)
(*                                                                         *)
(* The specifications, over the same state:                                *)
(*   LimiterSpec   RateLimiter.allow called directly, for several keys,    *)
(*                 under an advancing clock;                               *)
(*   DownloadSpec  one call of envato_download, step by step;              *)
(*   Spec          the dispatch of messages to handle_message, one at a    *)
(*                 time as main() sets it up, including the limiter gate   *)
(*                 and envato_download step by step;                       *)
(*   MessageSpec   the handling of one message of Spec, from the states    *)
(*                 that earlier messages can have left;                    *)
(*   ConcSpec      handlers in flight together, as the concurrency model   *)
(*                 of the specification has them: the gate, the file of    *)
(*                 the download, the relay and the delete;                 *)
(*   GateSpec      the gates of the handlers of ConcSpec.                  *)
(*                                                                         *)
(* Where two definitions stand together and the first is not used by the   *)
(* model (AtCapacityOffByOne before AtCapacity), the first is a faulty     *)
(* variant of the second: the properties are checked to fail on it.        *)
(***************************************************************************)
EXTENDS Integers, Sequences, FiniteSets

\* ----------------------------------------------------------------- bounds
\* The clock takes the values 0..MaxTime.
MaxTime == 3
\* LimiterSpec makes at most MaxCalls calls of allow.
MaxCalls == 4
\* Spec dispatches at most MaxMsgs messages.
MaxMsgs == 2
\* A text holds at most MaxLinks marketplace links.
MaxLinks == 2
\* One chunk of the streamed body holds at most ChunkMax units (line 144 asks
\* for chunks of 1024 * 256 bytes; a unit is a scaled number of bytes).
ChunkMax == 2
\* Units in one megabyte (1024 * 1024 at line 141, scaled).
MiB == 2
\* The longest text of an exception raised by a library (requests, json, OS).
MaxErrLen == 201

\* LimiterSpec builds RateLimiter(window_sec, max_hits) with a window of
\* 1..MaxWindow seconds and a capacity of 1..MaxHits.
MaxWindow == 2
MaxHits == 2

\* ----------------------------------------------------------- configuration
\* MAX_FILE_MB (line 176) is read from the environment; the model takes a
\* small value.
max_mb == 1

Chats == {1, 2}
Users == {1, 2}
NoUser == 0
Items == {1, 2}
\* ALLOWED_CHAT_IDS
allowed_chat_ids == {1}

VARIABLES
    window_sec, \* RateLimiter.window_sec
    max_hits,   \* RateLimiter.max_hits
    now,        \* time.time()
    hits,       \* RateLimiter.hits: key -> list of timestamps
    callLog,    \* history: every call of allow, <<chat, user>>, time, result
    handled,    \* number of messages dispatched so far
    update,     \* the message being handled
    pc,         \* position of handle_message / envato_download
    net,        \* history: network requests issued for the current message
    item_uuid,  \* envato_download: the resolved item handle (0: none)
    idx,        \* envato_download: position in candidate_types
    signed_url, \* envato_download: the signed URL (0: None)
    total,      \* envato_download: running byte total
    err,        \* the exception in flight (its kind and the length of its text)
    resp,       \* envato_download: the streamed response (its length, what is left)
    replies,    \* history: replies sent for the current message
    files,      \* /tmp: path -> file
    cookies,    \* ENVATO_COOKIES_JSON and the file it names
    running,    \* ConcSpec: the handler whose coroutine holds the event loop (0: free)
    tasks,      \* ConcSpec: handler -> the locals of its handle_message
    disk        \* ConcSpec: /tmp: path -> the file's bytes, each with its writer

\* The handlers in flight together under ConcSpec.
concVars == <<running, tasks, disk>>

vars == <<window_sec, max_hits, now, hits, callLog, handled, update, pc, net, item_uuid, idx,
          signed_url, total, err, resp, replies, files, cookies, concVars>>

handlerVars == <<window_sec, max_hits, handled, update, pc, net, item_uuid, idx, signed_url, total,
                 err, resp, replies, files, cookies, concVars>>

\* The handler of Spec, which handles one message at a time.
oneVars == <<update, pc, net, item_uuid, idx, signed_url, total, err, resp, replies, files,
             cookies>>

\* ------------------------------------------------------------- RateLimiter
\* key = (chat_id, user_id)
key_of_chat_only(chat_id, user_id) == <<chat_id, 1>>
key_of(chat_id, user_id) == <<chat_id, user_id>>

\* self.hits.get(key, [])
hits_get(h, key) == IF key \in DOMAIN h THEN h[key] ELSE <<>>

\* self.hits[key] = arr
hits_set(h, key, arr) ==
    [k \in (DOMAIN h) \cup {key} |-> IF k = key THEN arr ELSE h[k]]

\* [t for t in ... if now - t < self.window_sec]
InWindowInclusive(arr, t) == SelectSeq(arr, LAMBDA x : t - x <= window_sec)
InWindow(arr, t) == SelectSeq(arr, LAMBDA x : t - x < window_sec)

\* len(arr) >= self.max_hits
AtCapacityOffByOne(arr) == Len(arr) > max_hits
AtCapacity(arr) == Len(arr) >= max_hits

\* the list stored by a denied call: the pruned list
DeniedRecording(arr, t) == Append(arr, t)
Denied(arr, t) == arr

\* the result of allow(chat_id, user_id) at time t
allow_result(h, t, chat_id, user_id) ==
    ~AtCapacity(InWindow(hits_get(h, key_of(chat_id, user_id)), t))

\* self.hits after allow(chat_id, user_id) at time t
allow_hits(h, t, chat_id, user_id) ==
    LET key == key_of(chat_id, user_id)
        arr == InWindow(hits_get(h, key), t)
    IN  IF AtCapacity(arr)
        THEN hits_set(h, key, Denied(arr, t))
        ELSE hits_set(h, key, Append(arr, t))

\* One call of allow: the state change and the record of the call.
allow(chat_id, user_id) ==
    /\ hits' = allow_hits(hits, now, chat_id, user_id)
    /\ callLog' = Append(callLog, [key |-> <<chat_id, user_id>>, t |-> now,
                                   ok |-> allow_result(hits, now, chat_id, user_id)])

\* ------------------------------------------------------------------ clock
\* time.time() is read only by allow, which handle_message calls before it
\* awaits anything: the clock's advance matters between handlers only.
Tick ==
    /\ pc = "idle"
    /\ now < MaxTime
    /\ now' = now + 1
    /\ UNCHANGED <<hits, callLog, handlerVars>>

\* ------------------------------------------------------------ LimiterSpec
\* The keys LimiterSpec calls allow for: two users of one chat, and one user
\* in two chats.
LimiterKeys == {<<1, 1>>, <<1, 2>>, <<2, 1>>}

AllowCall ==
    /\ pc = "idle"
    /\ Len(callLog) < MaxCalls
    /\ \E key \in LimiterKeys : allow(key[1], key[2])
    /\ UNCHANGED <<now, handlerVars>>

NoUpdate == [has_message |-> FALSE, kind |-> "group", chat |-> 1, user |-> NoUser, text |-> <<>>]
NoErr == [kind |-> "none", len |-> 0]
Absent == [exists |-> FALSE, size |-> 0, mine |-> FALSE]
NoResp == [len |-> 0, left |-> 0]

\* The handlers that can be in flight together: one for each message.
Handlers == 1..MaxMsgs

\* A handler that has not been started.
NoTask == [pc |-> "idle", user |-> NoUser, item |-> 0, t |-> 0, arr |-> <<>>, left |-> 0,
           total |-> 0, fd |-> "none", relayed |-> <<>>, reply |-> "none"]
NoFile == [exists |-> FALSE, data |-> <<>>]

\* No handler of ConcSpec is in flight.
NoTasks ==
    /\ running = 0
    /\ tasks = [h \in Handlers |-> NoTask]
    /\ disk = [p \in Items |-> NoFile]

\* The state after construction, but for the limiter's configuration.
Constructed ==
    /\ NoTasks
    /\ now = 0
    /\ hits = <<>>
    /\ callLog = <<>>
    /\ handled = 0
    /\ update = NoUpdate
    /\ pc = "idle"
    /\ net = <<>>
    /\ item_uuid = 0
    /\ idx = 0
    /\ signed_url = 0
    /\ total = 0
    /\ err = NoErr
    /\ resp = NoResp
    /\ replies = <<>>
    /\ files = [p \in Items |-> Absent]

\* RateLimiter(window_sec, max_hits), lines 58-61
LimiterInit ==
    /\ window_sec \in 1..MaxWindow
    /\ max_hits \in 1..MaxHits
    /\ Constructed
    /\ cookies = "ok"

LimiterNext == Tick \/ AllowCall

LimiterSpec == LimiterInit /\ [][LimiterNext]_vars

\* --------------------------------------------------------------- messages
\* A text is the sequence of the marketplace links it holds.
Links == {[site |-> "envato", id |-> i] : i \in Items} \cup {[site |-> "freepik", id |-> 0]}
Texts == UNION {[1..n -> Links] : n \in 0..MaxLinks}

Updates ==
    [has_message : BOOLEAN, kind : {"private", "group"}, chat : Chats,
     user : Users \cup {NoUser}, text : Texts]

\* ENVATO_ITEM_RE.search(text): the item id of the first Envato link (0: no match)
EnvatoLast(text) ==
    LET S == {i \in 1..Len(text) : text[i].site = "envato"}
    IN  IF S = {} THEN 0 ELSE text[CHOOSE i \in S : \A j \in S : j <= i].id
ENVATO_ITEM_RE(text) ==
    LET S == {i \in 1..Len(text) : text[i].site = "envato"}
    IN  IF S = {} THEN 0 ELSE text[CHOOSE i \in S : \A j \in S : i <= j].id

\* FREEPIK_RE.search(text)
FREEPIK_RE(text) == \E i \in 1..Len(text) : text[i].site = "freepik"

\* ------------------------------------------------------------ envato_download
candidate_types ==
    << "video-templates", "wordpress", "graphics", "presentation-templates",
       "fonts", "photos", "stock-video", "music", "sound-effects", "add-ons",
       "web-templates", "cms-templates", "3d" >>

\* limit = max_mb * 1024 * 1024
limit == max_mb * MiB

\* The longest response body the model streams: one unit over the limit.
MaxBody == limit + 1

\* out = f"/tmp/envato-{item_id}.zip"
out == item_uuid

\* A request in the history: what was asked and how it ended. A probe ends
\* "url" (a signed URL in the body), "none" (not 200, or no URL) or "network".
Request(op, arg, res) == [op |-> op, arg |-> arg, res |-> res]
Reply(kind, len) == [kind |-> kind, len |-> len]

\* raise: the exception travels to the except clause of handle_message
Raise(kind, len) ==
    /\ err' = [kind |-> kind, len |-> len]
    /\ pc' = "except"

\* The lengths of the texts of the exceptions the code raises itself.
EnvMissingLen == 36
ProbeExhaustedLen == 63
TooLargeLen == 24
\* The length of the text of an exception raised by a library: the model
\* takes the longest.
LibErrLens == {MaxErrLen}

\* ------------------------------------------------------------ handle_message
\* The dispatcher hands the next update to handle_message. Updates are
\* processed one at a time (the Application is built without concurrent
\* updates and the handler is blocking).
Dispatch ==
    /\ pc = "idle"
    /\ handled < MaxMsgs
    /\ handled' = handled + 1
    /\ update' \in Updates
    /\ pc' = "filter"
    /\ UNCHANGED <<concVars, window_sec, max_hits, now, hits, callLog, net, item_uuid, idx, signed_url, total,
                   err, resp, replies, files, cookies>>

\* lines 156-166: no chat or message, a private chat, a chat not allowed
FilteredNoPrivateCheck(u) == ~u.has_message \/ u.chat \notin allowed_chat_ids
Filtered(u) ==
    \/ ~u.has_message
    \/ u.kind = "private"
    \/ u.chat \notin allowed_chat_ids

Filter ==
    /\ pc = "filter"
    /\ pc' = IF Filtered(update) THEN "done" ELSE "gate"
    /\ UNCHANGED <<concVars, window_sec, max_hits, now, hits, callLog, handled, update, net, item_uuid, idx,
                   signed_url, total, err, resp, replies, files, cookies>>

\* line 169: the limiter is asked whenever the update has a requester
GatedOnlyWithLink(u) == u.user # NoUser /\ ENVATO_ITEM_RE(u.text) # 0
Gated(u) == u.user # NoUser

\* lines 168-173: the rate-limiter gate
GateAllowed ==
    /\ pc = "gate"
    /\ \/ /\ ~Gated(update)
          /\ UNCHANGED <<hits, callLog>>
       \/ /\ Gated(update)
          /\ allow_result(hits, now, update.chat, update.user)
          /\ allow(update.chat, update.user)
    /\ pc' = "classify"
    /\ UNCHANGED <<concVars, window_sec, max_hits, now, handled, update, net, item_uuid, idx, signed_url, total,
                   err, resp, replies, files, cookies>>

\* line 173: after the rate-limit notice the handler returns
AfterDeniedFallsThrough == "classify"
AfterDenied == "done"

GateDenied ==
    /\ pc = "gate"
    /\ Gated(update)
    /\ ~allow_result(hits, now, update.chat, update.user)
    /\ allow(update.chat, update.user)
    /\ replies' = Append(replies, Reply("rate_limit", 0))
    /\ pc' = AfterDenied
    /\ UNCHANGED <<concVars, window_sec, max_hits, now, handled, update, net, item_uuid, idx, signed_url, total,
                   err, resp, files, cookies>>

\* lines 175-183 and 192-194: link classification
Classify ==
    /\ pc = "classify"
    /\ IF ENVATO_ITEM_RE(update.text) # 0
       THEN \* cookies_path = env("ENVATO_COOKIES_JSON")
            /\ IF cookies = "unset"
               THEN Raise("ConfigurationError", EnvMissingLen)
               ELSE pc' = "envato_download" /\ err' = err
            /\ replies' = replies
       ELSE /\ replies' = IF FREEPIK_RE(update.text)
                          THEN Append(replies, Reply("freepik", 0))
                          ELSE replies
            /\ pc' = "done"
            /\ err' = err
    /\ UNCHANGED <<concVars, window_sec, max_hits, now, hits, callLog, handled, update, net, item_uuid, idx,
                   signed_url, total, resp, files, cookies>>

\* lines 89-93 and 81-85: the metadata lookup
MetaOutcomes == {"ok", "status", "malformed", "network"}

\* r.raise_for_status() and r.json()[...] return only for a success that
\* holds the field
MetaReturnsAlways(outcome) == outcome \in {"ok", "status"}
MetaReturns(outcome) == outcome = "ok"

envato_get_item_uuid ==
    /\ pc = "envato_download"
    /\ \E outcome \in MetaOutcomes :
          /\ net' = Append(net, Request("meta", ENVATO_ITEM_RE(update.text), outcome))
          /\ IF MetaReturns(outcome)
             THEN /\ item_uuid' = ENVATO_ITEM_RE(update.text)
                  /\ pc' = "load_cookiejar"
                  /\ err' = err
             ELSE /\ \E n \in LibErrLens : Raise("IdentifierResolutionFailed", n)
                  /\ item_uuid' = item_uuid
    /\ UNCHANGED <<concVars, window_sec, max_hits, now, hits, callLog, handled, update, idx, signed_url, total,
                   resp, replies, files, cookies>>

\* line 111 (and 75-78)
load_cookiejar_from_json ==
    /\ pc = "load_cookiejar"
    /\ IF cookies = "ok"
       THEN pc' = "probe" /\ idx' = 1 /\ err' = err
       ELSE /\ \E n \in LibErrLens : Raise("CredentialsUnreadable", n)
            /\ idx' = idx
    /\ UNCHANGED <<concVars, window_sec, max_hits, now, hits, callLog, handled, update, net, item_uuid,
                   signed_url, total, resp, replies, files, cookies>>

\* lines 120-130: one iteration of the probe loop. A response that is not 200
\* or holds no signed URL goes on to the next candidate; a signed URL breaks.
\* (Line 125 has lost its indentation in the source; the loop is read as its
\* body is written: status test, search, break.)
ProbeOutcomes == {"non200", "no_url", "url", "network"}

\* line 126: what the loop does on a status that is not 200
OnNon200Break == "break"
OnNon200 == "continue"

\* line 130: what the loop does once it has the signed URL
OnUrlContinue == "continue"
OnUrl == "break"

\* the next candidate of the for loop
ProbeNextSkipping(i) == i + 2
ProbeNext(i) == i + 1

ProbeResult(outcome) ==
    IF outcome \in {"non200", "no_url"} THEN "none" ELSE outcome

Probe ==
    /\ pc = "probe"
    /\ idx <= Len(candidate_types)
    /\ \E outcome \in ProbeOutcomes :
          /\ net' = Append(net, Request("probe", idx, ProbeResult(outcome)))
          /\ IF outcome = "network"
             THEN /\ \E n \in LibErrLens : Raise("ProbeRequestFailed", n)
                  /\ UNCHANGED <<idx, signed_url>>
             ELSE LET control == IF outcome = "non200" THEN OnNon200
                                 ELSE IF outcome = "url" THEN OnUrl
                                 ELSE "continue"
                  IN  /\ signed_url' = IF outcome = "url" THEN idx ELSE signed_url
                      /\ idx' = IF control = "break" THEN idx ELSE ProbeNext(idx)
                      /\ pc' = IF control = "break" \/ idx' > Len(candidate_types)
                               THEN "probed" ELSE "probe"
                      /\ err' = err
    /\ UNCHANGED <<concVars, window_sec, max_hits, now, hits, callLog, handled, update, item_uuid, total, resp,
                   replies, files, cookies>>

\* lines 132-133
ProbeExhausted ==
    /\ pc = "probed"
    /\ signed_url = 0
    /\ Raise("ProbeExhausted", ProbeExhaustedLen)
    /\ UNCHANGED <<concVars, window_sec, max_hits, now, hits, callLog, handled, update, net, item_uuid, idx,
                   signed_url, total, resp, replies, files, cookies>>

\* lines 135-136: the request of the signed URL
GetOutcomes == {"ok", "status", "network"}

RequestSigned ==
    /\ pc = "probed"
    /\ signed_url # 0
    /\ \E outcome \in GetOutcomes :
          /\ net' = Append(net, Request("get", signed_url, outcome))
          /\ IF outcome = "ok"
             THEN /\ \E n \in 0..MaxBody : resp' = [len |-> n, left |-> n]
                  /\ pc' = "open"
                  /\ err' = err
             ELSE /\ \E n \in LibErrLens : Raise("TransferFailed", n)
                  /\ resp' = resp
    /\ UNCHANGED <<concVars, window_sec, max_hits, now, hits, callLog, handled, update, item_uuid, idx,
                   signed_url, total, replies, files, cookies>>

\* lines 138-143: open(out, "wb") creates or truncates the file
OpenOut ==
    /\ pc = "open"
    /\ total' = 0
    /\ files' = [files EXCEPT ![out] = [exists |-> TRUE, size |-> 0, mine |-> TRUE]]
    /\ pc' = "stream"
    /\ UNCHANGED <<concVars, window_sec, max_hits, now, hits, callLog, handled, update, net, item_uuid, idx,
                   signed_url, err, resp, replies, cookies>>

\* total > limit
OverLimitLate(t) == t > limit + 1
OverLimit(t) == t > limit

\* lines 144-150: one chunk of the body
StreamChunk ==
    /\ pc = "stream"
    /\ resp.left > 0
    /\ \E n \in 1..ChunkMax :
          /\ n <= resp.left
          /\ resp' = [resp EXCEPT !.left = @ - n]
          /\ total' = total + n
          /\ IF OverLimit(total')
             THEN /\ Raise("SizeLimitExceeded", TooLargeLen)
                  /\ files' = files
             ELSE /\ files' = [files EXCEPT ![out].size = @ + n]
                  /\ UNCHANGED <<pc, err>>
    /\ UNCHANGED <<concVars, window_sec, max_hits, now, hits, callLog, handled, update, net, item_uuid, idx,
                   signed_url, replies, cookies>>

\* the connection breaks while the body is read
StreamFails ==
    /\ pc = "stream"
    /\ resp.left > 0
    /\ \E n \in LibErrLens : Raise("TransferFailed", n)
    /\ UNCHANGED <<concVars, window_sec, max_hits, now, hits, callLog, handled, update, net, item_uuid, idx,
                   signed_url, total, resp, replies, files, cookies>>

\* line 152: the body is read to its end; return out, filename
StreamDoneEarly == resp.left <= 1
StreamDone == resp.left = 0

ReturnOut ==
    /\ pc = "stream"
    /\ StreamDone
    /\ pc' = "relay"
    /\ UNCHANGED <<concVars, window_sec, max_hits, now, hits, callLog, handled, update, net, item_uuid, idx,
                   signed_url, total, err, resp, replies, files, cookies>>

\* line 185: reply_document(open(file_path, "rb"), ...)
Relay ==
    /\ pc = "relay"
    /\ \/ /\ replies' = Append(replies, Reply("document", files[out].size))
          /\ pc' = "remove"
          /\ err' = err
       \/ /\ \E n \in LibErrLens : Raise("RelayFailed", n)
          /\ replies' = replies
    /\ UNCHANGED <<concVars, window_sec, max_hits, now, hits, callLog, handled, update, net, item_uuid, idx,
                   signed_url, total, resp, files, cookies>>

\* lines 188-189: what the handler does with the OSError of os.remove
OnRemoveErrorRaise == "raise"
OnRemoveError == "pass"

\* lines 186-190: os.remove(file_path); an OSError is passed over
Remove ==
    /\ pc = "remove"
    /\ \/ /\ files' = [files EXCEPT ![out] = Absent]
          /\ pc' = "done"
          /\ err' = err
       \/ /\ files' = files
          /\ IF OnRemoveError = "pass"
             THEN pc' = "done" /\ err' = err
             ELSE \E n \in LibErrLens : Raise("OSError", n)
    /\ UNCHANGED <<concVars, window_sec, max_hits, now, hits, callLog, handled, update, net, item_uuid, idx,
                   signed_url, total, resp, replies, cookies>>

\* str(e)[:200]
TruncateNone(n) == n
Truncate(n) == IF n < 200 THEN n ELSE 200

\* lines 196-197
Except ==
    /\ pc = "except"
    /\ replies' = Append(replies, Reply("failed", Truncate(err.len)))
    /\ pc' = "done"
    /\ UNCHANGED <<concVars, window_sec, max_hits, now, hits, callLog, handled, update, net, item_uuid, idx,
                   signed_url, total, err, resp, files, cookies>>

\* handle_message returns: its locals and the histories of the message are
\* gone, and the dispatcher takes the next update
Return ==
    /\ pc = "done"
    /\ pc' = "idle"
    /\ update' = NoUpdate
    /\ net' = <<>>
    /\ item_uuid' = 0
    /\ idx' = 0
    /\ signed_url' = 0
    /\ total' = 0
    /\ err' = NoErr
    /\ resp' = NoResp
    /\ replies' = <<>>
    /\ files' = [p \in Items |-> [files[p] EXCEPT !.mine = FALSE]]
    /\ UNCHANGED <<concVars, window_sec, max_hits, now, hits, callLog, handled, cookies>>

Next ==
    \/ Tick
    \/ Dispatch
    \/ Filter
    \/ GateAllowed
    \/ GateDenied
    \/ Classify
    \/ envato_get_item_uuid
    \/ load_cookiejar_from_json
    \/ Probe
    \/ ProbeExhausted
    \/ RequestSigned
    \/ OpenOut
    \/ StreamChunk
    \/ StreamFails
    \/ ReturnOut
    \/ Relay
    \/ Remove
    \/ Except
    \/ Return

\* main, lines 200-212: the limiter is built from RATE_LIMIT_WINDOW_SEC and
\* RATE_LIMIT_MAX; the model takes the capacity 1, which a second message
\* inside the window meets.
Init ==
    /\ window_sec = MaxWindow
    /\ max_hits = 1
    /\ Constructed
    /\ cookies \in {"unset", "unreadable", "ok"}

Spec == Init /\ [][Next]_vars

\* The handling of one message, from a state that earlier messages can have
\* left: the limiter holds nothing, or the timestamp of an earlier message of
\* requester 1 in chat 1 (recorded at time 0), and /tmp holds nothing, or a
\* file of the largest size that a failed acquisition or a failed delete has
\* left.
MessageInit ==
    /\ window_sec = MaxWindow
    /\ max_hits = 1
    /\ now = 0
    /\ \/ hits = <<>> /\ callLog = <<>>
       \/ /\ hits = hits_set(<<>>, <<1, 1>>, <<0>>)
          /\ callLog = <<[key |-> <<1, 1>>, t |-> 0, ok |-> TRUE]>>
    /\ handled = 0
    /\ update = NoUpdate
    /\ pc = "idle"
    /\ net = <<>>
    /\ item_uuid = 0
    /\ idx = 0
    /\ signed_url = 0
    /\ total = 0
    /\ err = NoErr
    /\ resp = NoResp
    /\ replies = <<>>
    /\ \E q \in Items :
          files \in {[p \in Items |-> Absent],
                     [p \in Items |-> IF p = q
                                      THEN [exists |-> TRUE, size |-> limit, mine |-> FALSE]
                                      ELSE Absent]}
    /\ cookies \in {"unset", "unreadable", "ok"}
    /\ NoTasks

\* The dispatcher hands the one message to handle_message.
DispatchOne == handled = 0 /\ Dispatch

\* The time that passes before the message comes.
TickBefore == handled = 0 /\ Tick

MessageNext ==
    \/ TickBefore
    \/ DispatchOne
    \/ Filter
    \/ GateAllowed
    \/ GateDenied
    \/ Classify
    \/ envato_get_item_uuid
    \/ load_cookiejar_from_json
    \/ Probe
    \/ ProbeExhausted
    \/ RequestSigned
    \/ OpenOut
    \/ StreamChunk
    \/ StreamFails
    \/ ReturnOut
    \/ Relay
    \/ Remove
    \/ Except
    \/ Return

MessageSpec == MessageInit /\ [][MessageNext]_vars

\* One call of envato_download(item_url, cookies_path, max_mb), as
\* handle_message makes it for a text with one Envato link; a file of an
\* earlier download may lie at the destination.
DownloadInit ==
    /\ window_sec = MaxWindow
    /\ max_hits = 1
    /\ now = 0
    /\ hits = <<>>
    /\ callLog = <<>>
    /\ handled = 1
    /\ \E i \in Items :
          update = [has_message |-> TRUE, kind |-> "group", chat |-> 1,
                    user |-> NoUser, text |-> <<[site |-> "envato", id |-> i]>>]
    /\ pc = "envato_download"
    /\ net = <<>>
    /\ item_uuid = 0
    /\ idx = 0
    /\ signed_url = 0
    /\ total = 0
    /\ err = NoErr
    /\ resp = NoResp
    /\ replies = <<>>
    /\ \E n \in 0..limit :
          files \in {[p \in Items |-> Absent],
                     [p \in Items |-> [exists |-> TRUE, size |-> n, mine |-> FALSE]]}
    /\ cookies \in {"unreadable", "ok"}
    /\ NoTasks

envato_download ==
    \/ envato_get_item_uuid
    \/ load_cookiejar_from_json
    \/ Probe
    \/ ProbeExhausted
    \/ RequestSigned
    \/ OpenOut
    \/ StreamChunk
    \/ StreamFails
    \/ ReturnOut

DownloadSpec == DownloadInit /\ [][envato_download]_vars

\* ---------------------------------------------------------------- ConcSpec
\* handle_message for several messages in flight together, as under a
\* dispatcher that does not wait for the handler of one update before it
\* starts the next. Each message comes from a requester in the allowed group
\* chat and holds one Envato link. A coroutine runs on the event loop from one
\* await to the next without interruption; envato_download runs in a worker
\* thread of its own (asyncio.to_thread) and goes on step by step beside the
\* loop. The metadata lookup, the probes and the request of the signed URL
\* touch nothing the handlers share and are one step here.

\* The coroutine of handler h can run: the loop is free, or h holds it.
CanRun(h) == running \in {0, h}

\* (chat.id, user.id) of the message of handler h
task_key(h) == key_of(1, tasks[h].user)

\* line 156: the dispatcher starts handle_message for the next message
StartTask(h) ==
    /\ h = handled + 1
    /\ h \in Handlers
    /\ running = 0
    /\ tasks[h].pc = "idle"
    /\ \E u \in Users, i \in Items :
          tasks' = [tasks EXCEPT ![h] = [NoTask EXCEPT !.pc = "allow_read", !.user = u,
                                                       !.item = i]]
    /\ running' = h
    /\ handled' = h
    /\ UNCHANGED <<window_sec, max_hits, now, hits, callLog, disk, oneVars>>

\* lines 64-72 hold no await: the coroutine keeps the loop from the read of
\* self.hits to the store.
LoopAfterReadYields(h) == 0
LoopAfterRead(h) == h

\* lines 64-66: allow reads the clock and the key's list, and prunes it
AllowRead(h) ==
    /\ tasks[h].pc = "allow_read"
    /\ CanRun(h)
    /\ tasks' = [tasks EXCEPT ![h].pc = "allow_store",
                              ![h].t = now,
                              ![h].arr = InWindow(hits_get(hits, task_key(h)), now)]
    /\ running' = LoopAfterRead(h)
    /\ UNCHANGED <<window_sec, max_hits, now, hits, callLog, handled, disk, oneVars>>

\* lines 67-72 and 171-173, 184: allow stores the list and returns; the
\* handler awaits the rate-limit reply, or the worker thread of the download
AllowStore(h) ==
    /\ tasks[h].pc = "allow_store"
    /\ CanRun(h)
    /\ LET arr == tasks[h].arr
           t == tasks[h].t
           ok == ~AtCapacity(arr)
       IN  /\ hits' = hits_set(hits, task_key(h), IF ok THEN Append(arr, t) ELSE Denied(arr, t))
           /\ callLog' = Append(callLog, [key |-> task_key(h), t |-> t, ok |-> ok])
           /\ tasks' = [tasks EXCEPT ![h].pc = IF ok THEN "envato_download" ELSE "done",
                                     ![h].reply = IF ok THEN "none" ELSE "rate_limit",
                                     ![h].t = 0,
                                     ![h].arr = <<>>]
    /\ running' = 0
    /\ UNCHANGED <<window_sec, max_hits, now, handled, disk, oneVars>>

\* lines 89-136, in the worker thread: the lookup, the probes and the request
\* of the signed URL succeed, with a body of some length, or one of them fails
TaskFetch(h) ==
    /\ tasks[h].pc = "envato_download"
    /\ \/ \E n \in 1..MaxBody : tasks' = [tasks EXCEPT ![h].pc = "open", ![h].left = n]
       \/ tasks' = [tasks EXCEPT ![h].pc = "except"]
    /\ UNCHANGED <<window_sec, max_hits, now, hits, callLog, handled, running, disk, oneVars>>

\* lines 138-143, in the worker thread: open(out, "wb") creates the file, or
\* truncates the file that is there (and that other handlers may hold open)
TaskOpen(h) ==
    /\ tasks[h].pc = "open"
    /\ disk' = [disk EXCEPT ![tasks[h].item] = [exists |-> TRUE, data |-> <<>>]]
    /\ tasks' = [tasks EXCEPT ![h].pc = "stream", ![h].fd = "linked", ![h].total = 0]
    /\ UNCHANGED <<window_sec, max_hits, now, hits, callLog, handled, running, oneVars>>

\* f.write(chunk) by handler h: n bytes at the offset of h's own descriptor,
\* over what is there; a gap before the offset reads as zeros (writer 0)
written(data, h, off, n) ==
    LET len == IF Len(data) > off + n THEN Len(data) ELSE off + n
    IN  [i \in 1..len |-> IF i \in (off + 1)..(off + n) THEN h
                          ELSE IF i <= Len(data) THEN data[i] ELSE 0]

\* lines 144-150, in the worker thread: one chunk. The bytes of a descriptor
\* whose file was removed go to no path.
TaskWrite(h) ==
    /\ tasks[h].pc = "stream"
    /\ tasks[h].left > 0
    /\ \E n \in 1..ChunkMax :
          /\ n <= tasks[h].left
          /\ IF OverLimit(tasks[h].total + n)
             THEN /\ tasks' = [tasks EXCEPT ![h].pc = "except", ![h].left = @ - n,
                                            ![h].total = @ + n]
                  /\ disk' = disk
             ELSE /\ tasks' = [tasks EXCEPT ![h].left = @ - n, ![h].total = @ + n]
                  /\ disk' = IF tasks[h].fd = "linked"
                             THEN [disk EXCEPT ![tasks[h].item].data =
                                       written(@, h, tasks[h].total, n)]
                             ELSE disk
    /\ UNCHANGED <<window_sec, max_hits, now, hits, callLog, handled, running, oneVars>>

\* line 152: the thread returns the path; the coroutine resumes at line 185
TaskReturnOut(h) ==
    /\ tasks[h].pc = "stream"
    /\ tasks[h].left = 0
    /\ tasks' = [tasks EXCEPT ![h].pc = "relay", ![h].fd = "none"]
    /\ UNCHANGED <<window_sec, max_hits, now, hits, callLog, handled, running, disk, oneVars>>

\* line 185: open(file_path, "rb") and the start of reply_document, which
\* sends the bytes the file holds; no file at the path, or a failing upload,
\* raises
TaskRelay(h) ==
    /\ tasks[h].pc = "relay"
    /\ CanRun(h)
    /\ IF disk[tasks[h].item].exists
       THEN \/ tasks' = [tasks EXCEPT ![h].pc = "remove", ![h].reply = "document",
                                      ![h].relayed = disk[tasks[h].item].data]
            \/ tasks' = [tasks EXCEPT ![h].pc = "except"]
       ELSE tasks' = [tasks EXCEPT ![h].pc = "except"]
    /\ running' = 0
    /\ UNCHANGED <<window_sec, max_hits, now, hits, callLog, handled, disk, oneVars>>

\* lines 186-190: reply_document has returned; os.remove(file_path) unlinks
\* whatever file is at the path (descriptors open on it write on, to no
\* path), and an OSError is passed over
TaskRemove(h) ==
    /\ tasks[h].pc = "remove"
    /\ CanRun(h)
    /\ IF disk[tasks[h].item].exists
       THEN /\ disk' = [disk EXCEPT ![tasks[h].item] = NoFile]
            /\ tasks' = [g \in Handlers |->
                           IF g = h THEN [tasks[g] EXCEPT !.pc = "done", !.total = 0,
                                                          !.relayed = <<>>]
                           ELSE IF tasks[g].item = tasks[h].item /\ tasks[g].fd = "linked"
                                THEN [tasks[g] EXCEPT !.fd = "unlinked"]
                                ELSE tasks[g]]
       ELSE /\ disk' = disk
            /\ tasks' = [tasks EXCEPT ![h].pc = "done", ![h].total = 0, ![h].relayed = <<>>]
    /\ running' = 0
    /\ UNCHANGED <<window_sec, max_hits, now, hits, callLog, handled, oneVars>>

\* lines 196-197
TaskExcept(h) ==
    /\ tasks[h].pc = "except"
    /\ CanRun(h)
    /\ tasks' = [tasks EXCEPT ![h].pc = "done", ![h].reply = "failed", ![h].fd = "none",
                              ![h].left = 0, ![h].total = 0]
    /\ running' = 0
    /\ UNCHANGED <<window_sec, max_hits, now, hits, callLog, handled, disk, oneVars>>

\* The clock is read by allow only: its advance matters while a handler has
\* its call of allow before it.
ConcTick ==
    /\ \/ handled < MaxMsgs
       \/ \E h \in Handlers : tasks[h].pc = "allow_read"
    /\ Tick

ConcNext ==
    \/ ConcTick
    \/ \E h \in Handlers :
          \/ StartTask(h)
          \/ AllowRead(h)
          \/ AllowStore(h)
          \/ TaskFetch(h)
          \/ TaskOpen(h)
          \/ TaskWrite(h)
          \/ TaskReturnOut(h)
          \/ TaskRelay(h)
          \/ TaskRemove(h)
          \/ TaskExcept(h)

\* main, lines 200-212, with a window of 1..MaxWindow seconds and a capacity
\* of 1..MaxHits
ConcInit ==
    /\ window_sec \in 1..MaxWindow
    /\ max_hits \in 1..MaxHits
    /\ Constructed
    /\ cookies = "ok"

ConcSpec == ConcInit /\ [][ConcNext]_vars

\* The gates of the handlers in flight together: the handlers up to their
\* first await. What a handler does after it (the download in its worker
\* thread, the replies) does not touch the limiter.
GateNext ==
    \/ ConcTick
    \/ \E h \in Handlers :
          \/ StartTask(h)
          \/ AllowRead(h)
          \/ AllowStore(h)

GateSpec == ConcInit /\ [][GateNext]_vars

\* ------------------------------------------------- claims on RateLimiter
\* The calls of callLog before call j, for j's key, that were allowed at a
\* time inside the window of call j.
AllowedInWindowBefore(j) ==
    {i \in 1..(j - 1) : /\ callLog[i].key = callLog[j].key
                        /\ callLog[i].ok
                        /\ callLog[j].t - callLog[i].t < window_sec}

\* C1: a call of allow returns true if and only if fewer than max_hits earlier
\* calls for the same (chat, user) returned true at a time inside the window
\* of this call.
C1_AllowIffBelowCapacity ==
    \A j \in 1..Len(callLog) :
        callLog[j].ok <=> Cardinality(AllowedInWindowBefore(j)) < max_hits

\* C1 witness: with a window of 2 and a capacity of 2, for one key, two
\* immediate calls were allowed, one more
\* immediate call was denied, and a call made more than window_sec later was
\* allowed again.
C1_Witness ==
    \E j, l \in 1..Len(callLog) :
        /\ window_sec = 2
        /\ max_hits = 2
        /\ j < l
        /\ callLog[l].key = callLog[j].key
        /\ ~callLog[j].ok
        /\ Cardinality({i \in 1..(j - 1) : /\ callLog[i].key = callLog[j].key
                                           /\ callLog[i].ok
                                           /\ callLog[i].t = callLog[j].t}) = max_hits
        /\ callLog[l].t - callLog[j].t > window_sec
        /\ callLog[l].ok

\* The timestamps of arr that have not expired at time t.
NotExpired(arr, t) == SelectSeq(arr, LAMBDA x : t - x < window_sec)

\* The call of allow made by this step, if the step makes one.
IsCall == Len(callLog') = Len(callLog) + 1
TheCall == callLog'[Len(callLog')]
Contains(arr, x) == \E i \in 1..Len(arr) : arr[i] = x

\* C2 as stated: a denied call stores the pre-call timestamps minus the
\* expired ones and `now` is not among them; an allowed call stores them with
\* `now` appended.
C2_DeniedHoldsNoNow ==
    [][IsCall =>
        LET before == hits_get(hits, TheCall.key)
            after == hits_get(hits', TheCall.key)
        IN  IF TheCall.ok
            THEN after = Append(NotExpired(before, now), now)
            ELSE /\ after = NotExpired(before, now)
                 /\ ~Contains(after, now)]_vars

\* C2 amended: a denied call stores exactly the pre-call timestamps minus the
\* expired ones, so it adds no timestamp (`now` is among them only when an
\* earlier allowed call was recorded at the same clock reading); an allowed
\* call stores them with exactly one `now` appended.
C2_DeniedRecordsNothing ==
    [][IsCall =>
        LET before == hits_get(hits, TheCall.key)
            after == hits_get(hits', TheCall.key)
        IN  IF TheCall.ok
            THEN after = Append(NotExpired(before, now), now)
            ELSE /\ after = NotExpired(before, now)
                 /\ Contains(after, now) => Contains(before, now)]_vars

\* C2 witness: a call was denied after an expired timestamp had been pruned
\* by it, and the key holds max_hits timestamps, none of them of the call.
C2_Witness ==
    \E j \in 1..Len(callLog) :
        /\ j = Len(callLog)
        /\ ~callLog[j].ok
        /\ callLog[j].t = now
        /\ Len(hits_get(hits, callLog[j].key)) = max_hits
        /\ ~Contains(hits_get(hits, callLog[j].key), now)
        /\ \E i \in 1..(j - 1) : /\ callLog[i].key = callLog[j].key
                                 /\ callLog[i].ok
                                 /\ now - callLog[i].t >= window_sec

\* The calls of callLog made for key k, in order.
CallsOf(k) == SelectSeq(callLog, LAMBDA c : c.key = k)

\* A limiter that only ever sees the calls of one key: its state and results
\* after the calls cs, from an empty limiter.
RECURSIVE Alone(_)
Alone(cs) ==
    IF cs = <<>>
    THEN [h |-> <<>>, ok |-> <<>>]
    ELSE LET prev == Alone(SubSeq(cs, 1, Len(cs) - 1))
             c == cs[Len(cs)]
         IN  [h |-> allow_hits(prev.h, c.t, c.key[1], c.key[2]),
              ok |-> Append(prev.ok, allow_result(prev.h, c.t, c.key[1], c.key[2]))]

Results(cs) == [i \in 1..Len(cs) |-> cs[i].ok]

\* C3: keys are isolated: for every key k, the stored state of k and the
\* result of every call for k are those of a limiter on which no call for any
\* other key was ever made (so a call for another key leaves k's state alone).
C3_KeysIsolated ==
    \A k \in Chats \X Users :
        LET alone == Alone(CallsOf(k))
        IN  /\ hits_get(hits, k) = hits_get(alone.h, k)
            /\ Results(CallsOf(k)) = alone.ok

\* C3 witness: one key was denied, and a later call at the same time for
\* another key was allowed.
C3_Witness ==
    \E i, j \in 1..Len(callLog) :
        /\ i < j
        /\ callLog[i].key # callLog[j].key
        /\ callLog[i].t = callLog[j].t
        /\ ~callLog[i].ok
        /\ callLog[j].ok

\* ---------------------------------------------- claims on envato_download
\* The requests of the history with operation op, in order.
Requests(op) == SelectSeq(net, LAMBDA r : r.op = op)
Probes == Requests("probe")
Gets == Requests("get")

\* The metadata lookup has completed successfully before request i.
MetaSucceededBefore(i) ==
    \E j \in 1..(i - 1) : net[j].op = "meta" /\ net[j].res = "ok"

\* This acquisition has opened (created or truncated) a file.
WroteFile == \E p \in Items : files[p].exists /\ files[p].mine

\* C4: no probe request is issued and no signed URL is obtained or requested
\* unless the metadata lookup has completed successfully before; when the
\* metadata endpoint answers with a non-success status or a malformed body,
\* the acquisition fails with no probe request and no download.
C4_NoProbeBeforeHandle ==
    /\ \A i \in 1..Len(net) :
          net[i].op \in {"probe", "get"} => MetaSucceededBefore(i)
    /\ signed_url # 0 => MetaSucceededBefore(Len(net) + 1)
    /\ \A i \in 1..Len(net) :
          (net[i].op = "meta" /\ net[i].res \in {"status", "malformed"}) =>
              /\ Len(net) = 1
              /\ pc = "except"
              /\ err.kind = "IdentifierResolutionFailed"
              /\ signed_url = 0
              /\ ~WroteFile

\* C4 witness: the metadata endpoint answered with a non-success status and
\* the acquisition has failed.
C4_Witness ==
    /\ Len(net) = 1
    /\ net[1].op = "meta"
    /\ net[1].res = "status"
    /\ pc = "except"

\* Every probe of the history came back without a signed URL.
AllProbesNone == \A i \in 1..Len(Probes) : Probes[i].res = "none"

\* The probes went to the candidates in the declared order, one each.
ProbesInOrder == \A i \in 1..Len(Probes) : Probes[i].arg = i

\* C5: when the metadata lookup succeeds and every candidate answers without
\* a signed URL, probing goes on through all of candidate_types in the
\* declared order, the acquisition then fails with the probe-exhausted error
\* after exactly Len(candidate_types) probes, and no download is started; and
\* the probe-exhausted error is raised in no other case.
C5_ProbeExhausted ==
    /\ (Probes # <<>> /\ AllProbesNone) =>
          /\ ProbesInOrder
          /\ Gets = <<>>
          /\ ~WroteFile
          /\ IF Len(Probes) < Len(candidate_types)
             THEN pc = "probe" /\ idx = Len(Probes) + 1
             ELSE /\ Len(Probes) = Len(candidate_types)
                  /\ \/ pc = "probed" /\ signed_url = 0
                     \/ pc = "except" /\ err.kind = "ProbeExhausted"
    /\ err.kind = "ProbeExhausted" =>
          /\ Len(Probes) = Len(candidate_types)
          /\ AllProbesNone
          /\ ProbesInOrder

\* C5 witness: all candidates were probed in vain and the acquisition failed.
C5_Witness ==
    /\ err.kind = "ProbeExhausted"
    /\ Len(Probes) = 13
    /\ Gets = <<>>

\* C6: if candidate k is the first whose response holds a signed URL, exactly
\* k probes are issued, to the candidates 1..k in order and none after, and
\* the signed URL is requested exactly once, with the URL of candidate k.
C6_ShortCircuit ==
    \A k \in 1..Len(Probes) :
        Probes[k].res = "url" =>
            /\ Len(Probes) = k
            /\ ProbesInOrder
            /\ signed_url = Probes[k].arg
            /\ \/ pc = "probed" /\ Gets = <<>>
               \/ /\ pc \in {"open", "stream", "relay", "remove", "except", "done"}
                  /\ Len(Gets) = 1
                  /\ Gets[1].arg = k

\* C6 witness: the third candidate answered with a signed URL and the
\* streamed download is under way.
C6_Witness ==
    /\ Len(Probes) = 3
    /\ Probes[3].res = "url"
    /\ Probes[1].res = "none"
    /\ pc = "stream"
    /\ Len(Gets) = 1

\* C7 as stated: when the running total exceeds the limit, the download fails
\* with the size-limit error and no file holding the bytes transferred so far
\* remains at the destination (it is deleted or truncated).
C7_NoPartialFileOnSizeLimit ==
    err.kind = "SizeLimitExceeded" =>
        \/ ~files[out].exists
        \/ files[out].size = 0

\* C8: the bytes written to the destination never exceed the limit, and
\* envato_download returns the path only when the whole response was written
\* and the total did not exceed the limit.
C8_CeilingEnforced ==
    /\ \A p \in Items : files[p].mine => files[p].size <= limit
    /\ pc \in {"stream", "relay"} => files[out].size = total
    /\ pc = "relay" =>
          /\ resp.left = 0
          /\ files[out].exists
          /\ files[out].size = resp.len
          /\ total <= limit

\* C8 witness: a response of exactly the limit was written in full and the
\* path returned.
C8_Witness ==
    /\ pc = "relay"
    /\ resp.len = limit
    /\ files[out].size = limit

\* ---------------------------------------------- claims on handle_message
\* C9 as stated: once handle_message has finished, whatever the outcome of the
\* acquisition it started, no file written by that acquisition remains on
\* local storage.
C9_NoFileRemains ==
    pc = "done" => ~WroteFile

\* The chat is a private conversation, or its id is not in the allow-set.
PrivateOrNotAllowed(u) == u.kind = "private" \/ u.chat \notin allowed_chat_ids

\* C10: while a message of a private chat, or of a chat that is not in the
\* allow-set, is handled, no network request is issued, no reply is sent, no
\* file is written and the limiter is neither called nor changed, whatever
\* links the text holds.
C10_FilteredDoesNothing ==
    /\ [](pc # "idle" /\ PrivateOrNotAllowed(update) =>
            /\ net = <<>>
            /\ replies = <<>>
            /\ ~WroteFile
            /\ pc \in {"filter", "done"})
    /\ [][pc # "idle" /\ PrivateOrNotAllowed(update) =>
            /\ hits' = hits
            /\ callLog' = callLog
            /\ files' = files]_vars

\* C10 witness: a message of a private chat whose id is in the allow-set,
\* from a requester, holding an Envato link, has been handled, after an
\* earlier message had been recorded by the limiter.
C10_Witness ==
    /\ pc = "done"
    /\ update.has_message
    /\ update.kind = "private"
    /\ update.chat \in allowed_chat_ids
    /\ update.user # NoUser
    /\ ENVATO_ITEM_RE(update.text) # 0
    /\ callLog # <<>>

\* The last element of a non-empty sequence.
Last(s) == s[Len(s)]

\* handle_message has passed the gate for a message with a requester.
PastGate ==
    /\ pc \notin {"idle", "filter", "gate"}
    /\ ~Filtered(update)
    /\ update.user # NoUser

\* C11: when a requester is present, allow is called for (chat, requester)
\* before any network activity: nothing is requested, replied or written up to
\* the gate, and every request or file of the message follows a call that
\* returned true; when allow returns false the handler finishes with the
\* rate-limit notice as its only effect: no request and no file.
C11_GateBeforeNetwork ==
    /\ pc \in {"filter", "gate"} => (net = <<>> /\ replies = <<>> /\ ~WroteFile)
    /\ PastGate =>
          /\ callLog # <<>>
          /\ Last(callLog).key = <<update.chat, update.user>>
          /\ Last(callLog).t = now
          /\ (net # <<>> \/ WroteFile) => Last(callLog).ok
          /\ ~Last(callLog).ok =>
                /\ pc = "done"
                /\ replies = <<Reply("rate_limit", 0)>>
                /\ net = <<>>
                /\ ~WroteFile

\* C11 witness: a message with an Envato link from a requester was denied by
\* the limiter and its handling has finished.
C11_Witness ==
    /\ PastGate
    /\ pc = "done"
    /\ ~Last(callLog).ok
    /\ ENVATO_ITEM_RE(update.text) # 0

\* The document replies of the message.
Documents == SelectSeq(replies, LAMBDA r : r.kind = "document")

\* This step deletes the file at path p.
Deleted(p) == files[p].exists /\ ~files'[p].exists

\* C12: a file is deleted only by the handler's os.remove, after the document
\* was relayed, and it is the file this acquisition wrote (the downloader
\* deletes nothing); the delete is attempted once, right after the relay, and
\* whether it succeeds or fails the handler finishes with the document as its
\* only reply.
C12_DeleteAfterRelay ==
    /\ [](pc \in {"remove", "done"} /\ Documents # <<>> => Len(replies) = 1)
    /\ [][/\ \A p \in Items :
                Deleted(p) => /\ pc = "remove"
                              /\ p = out
                              /\ files[p].mine
                              /\ Len(Documents) = 1
          /\ pc = "remove" => (pc' = "done" /\ replies' = replies)
          /\ pc' = "remove" => (pc = "relay" /\ Len(Documents') = Len(Documents) + 1)]_vars

\* C12 witness: the document was relayed, the file deleted, and the handler
\* has finished.
C12_Witness ==
    /\ pc = "done"
    /\ Len(replies) = 1
    /\ replies[1].kind = "document"
    /\ replies[1].len > 0
    /\ ~files[out].exists

\* C13: every failure of the acquisition (and of the relay) reaches the
\* except clause of handle_message before any reply was sent, and is answered
\* with exactly one failure reply whose error text is the first 200 characters
\* at most; the handler then returns, and the dispatcher takes further
\* messages.
C13_FailureBecomesOneReply ==
    /\ err.kind # "none" =>
          /\ pc \in {"except", "done"}
          /\ pc = "except" => replies = <<>>
          /\ pc = "done" =>
                /\ Len(replies) = 1
                /\ replies[1].kind = "failed"
                /\ replies[1].len <= 200
                /\ replies[1].len = IF err.len <= 200 THEN err.len ELSE 200
    /\ pc = "done" => ENABLED Return
    /\ (pc = "idle" /\ handled < MaxMsgs) => ENABLED Dispatch

\* C13 witness: a transfer failed with an error text of more than 200
\* characters, the failure reply holds 200 of them, and the handler has
\* finished with messages still to come.
C13_Witness ==
    /\ pc = "done"
    /\ err.kind = "TransferFailed"
    /\ err.len > 200
    /\ replies = <<Reply("failed", 200)>>
    /\ handled < MaxMsgs

\* The envato_download of the message being handled is in flight.
InFlight == pc \in {"envato_download", "load_cookiejar", "probe", "probed", "open", "stream"}

\* C14 as stated: a long-running acquisition does not block the dispatch loop:
\* while the envato_download of one message is in flight and a further message
\* is there to be handled, the dispatcher can hand it to handle_message (so a
\* second acquisition can start before the first completes).
C14_DispatchNotBlocked ==
    (InFlight /\ handled < MaxMsgs) => ENABLED Dispatch

\* The timestamps of arr that are not strictly older than t - window_sec.
NotOlder(arr, t) == SelectSeq(arr, LAMBDA x : t - x <= window_sec)

\* C17 as stated: only timestamps strictly older than now - W are pruned, so
\* a recorded timestamp t with now - t = W is kept and still counted toward
\* capacity by a call made at time now.
C17_BoundaryCounted ==
    [][IsCall =>
        LET before == hits_get(hits, TheCall.key)
            after == hits_get(hits', TheCall.key)
            counted == NotOlder(before, now)
        IN  /\ TheCall.ok <=> Len(counted) < max_hits
            /\ after = IF TheCall.ok THEN Append(counted, now) ELSE counted]_vars

\* The smallest element of a non-empty set of numbers.
Min(S) == CHOOSE x \in S : \A y \in S : x <= y

\* The timestamps counted toward capacity by call j.
CountedAt(j) == {callLog[i].t : i \in AllowedInWindowBefore(j)}

\* No call between i and j, for the key of i, was allowed.
OnlyDeniedBetween(i, j) ==
    \A m \in (i + 1)..(j - 1) : callLog[m].key = callLog[i].key => ~callLog[m].ok

\* C18: denied retries do not prolong a lockout: after a denied call i, with
\* however many denied calls of the key in between, a call of the key made
\* once the oldest timestamp counted at call i has left the window is allowed.
C18_RetriesDoNotProlong ==
    \A i, j \in 1..Len(callLog) :
        (/\ i < j
         /\ callLog[j].key = callLog[i].key
         /\ ~callLog[i].ok
         /\ OnlyDeniedBetween(i, j)
         /\ callLog[j].t - Min(CountedAt(i)) >= window_sec)
        => callLog[j].ok

\* C18 witness: a key was denied, retried and was denied again at a later
\* time, and was allowed at the very time the oldest counted timestamp left
\* the window.
C18_Witness ==
    \E i, m, j \in 1..Len(callLog) :
        /\ i < m /\ m < j
        /\ callLog[m].key = callLog[i].key
        /\ callLog[j].key = callLog[i].key
        /\ ~callLog[i].ok
        /\ ~callLog[m].ok
        /\ callLog[m].t > callLog[i].t
        /\ OnlyDeniedBetween(i, j)
        /\ callLog[j].t - Min(CountedAt(i)) = window_sec
        /\ callLog[j].ok

\* Position i of the text holds its first Envato link.
FirstEnvatoAt(text, i) ==
    /\ i \in 1..Len(text)
    /\ text[i].site = "envato"
    /\ \A j \in 1..(i - 1) : text[j].site # "envato"

HasEnvato(text) == \E i \in 1..Len(text) : text[i].site = "envato"
HasFreepik(text) == \E i \in 1..Len(text) : text[i].site = "freepik"

\* C19: a message gets at most one acquisition, started for the first Envato
\* link of its text whatever other links follow, and at most one reply, which
\* is the rate-limit notice, the document, the failure notice or the Freepik
\* notice; the Freepik notice is sent only for a text with a Freepik link and
\* no Envato link.
C19_OneOutcome ==
    /\ Len(Requests("meta")) <= 1
    /\ \A r \in 1..Len(net) :
          net[r].op = "meta" =>
              /\ r = 1
              /\ \E i \in 1..Len(update.text) :
                    FirstEnvatoAt(update.text, i) /\ net[r].arg = update.text[i].id
    /\ net # <<>> => net[1].op = "meta"
    /\ item_uuid # 0 => item_uuid = net[1].arg
    /\ Len(replies) <= 1
    /\ \A r \in 1..Len(replies) :
          /\ replies[r].kind \in {"rate_limit", "document", "failed", "freepik"}
          /\ replies[r].kind = "freepik" =>
                (HasFreepik(update.text) /\ ~HasEnvato(update.text) /\ net = <<>>)
    /\ pc \in {"except", "envato_download"} => HasEnvato(update.text)

\* C19 witness: a text that ends with two Envato links of different items
\* was answered with the document of the first of the two, and nothing else.
C19_Witness ==
    /\ pc = "done"
    /\ net # <<>>
    /\ Len(update.text) = MaxLinks
    /\ update.text[MaxLinks - 1].site = "envato"
    /\ update.text[MaxLinks].site = "envato"
    /\ update.text[MaxLinks - 1].id # update.text[MaxLinks].id
    /\ net[1].arg = update.text[MaxLinks - 1].id
    /\ Len(replies) = 1
    /\ replies[1].kind = "document"

\* C20: the limiter is asked at the gate, before the text is looked at: a
\* message with a requester that passes the gate records `now` for its key,
\* once, whatever its text holds (no link, a Freepik link only, an Envato
\* link), and the record stays whatever the acquisition's outcome; a message
\* without a requester neither asks nor changes the limiter, and with an
\* Envato link its acquisition still starts.
C20_CapacityConsumedAtGate ==
    /\ [](/\ PastGate =>
                LET arr == hits_get(hits, <<update.chat, update.user>>)
                IN  /\ callLog # <<>>
                    /\ Last(callLog).ok => (arr # <<>> /\ Last(arr) = now)
          /\ (pc = "classify" /\ update.user = NoUser /\ HasEnvato(update.text)) =>
                ENABLED (Classify /\ pc' \in {"envato_download", "except"}))
    /\ [][/\ (pc = "gate" /\ update.user # NoUser) =>
                LET key == <<update.chat, update.user>>
                IN  /\ IsCall
                    /\ TheCall.key = key
                    /\ TheCall.ok =>
                          hits_get(hits', key) = Append(NotExpired(hits_get(hits, key), now), now)
          /\ (pc \notin {"idle", "gate"} \/ update.user = NoUser) =>
                (hits' = hits /\ callLog' = callLog)]_vars

\* C20 witness: a message from a requester whose text holds a Freepik link
\* only was answered with the Freepik notice, and its key holds the timestamp
\* of the message.
C20_Witness ==
    /\ pc = "done"
    /\ PastGate
    /\ update.text = <<[site |-> "freepik", id |-> 0]>>
    /\ replies = <<Reply("freepik", 0)>>
    /\ hits_get(hits, <<update.chat, update.user>>) = <<now>>

\* ------------------------------------------- claims on concurrent handlers
\* The allowed calls up to call j, for j's key, inside the window of call j.
AllowedUpTo(j) ==
    {i \in 1..j : /\ callLog[i].key = callLog[j].key
                  /\ callLog[i].ok
                  /\ callLog[j].t - callLog[i].t < window_sec}

\* The timestamps of the allowed calls for key k that lie inside the window
\* of the last call for k, in order.
Recorded(k) ==
    LET cs == CallsOf(k)
        tl == cs[Len(cs)].t
        kept == SelectSeq(cs, LAMBDA c : c.ok /\ tl - c.t < window_sec)
    IN  [i \in 1..Len(kept) |-> kept[i].t]

\* C15: allow is atomic with respect to the handlers in flight together: no
\* two calls are between their read of self.hits and their store at the same
\* time, no window holds more than max_hits allowed calls of a key, and every
\* allowed timestamp still inside the window is in the key's stored list.
C15_AllowAtomic ==
    /\ \A h, g \in Handlers :
          (tasks[h].pc = "allow_store" /\ tasks[g].pc = "allow_store") => h = g
    /\ \A j \in 1..Len(callLog) :
          callLog[j].ok => Cardinality(AllowedUpTo(j)) <= max_hits
    /\ \A k \in Chats \X Users :
          CallsOf(k) # <<>> => hits_get(hits, k) = Recorded(k)

\* C15 witness: with a capacity of one, two messages of one key are in flight
\* together: the first awaits its download and the second was denied.
C15_Witness ==
    /\ max_hits = 1
    /\ tasks[1].pc = "envato_download"
    /\ tasks[2].reply = "rate_limit"
    /\ tasks[1].user = tasks[2].user

\* The first n bytes as written by handler h alone.
OwnBytes(h, n) == [i \in 1..n |-> h]

====
